---- MODULE Spec2Model ----
\* Verification model of the dishcovery recipe search service
\* (src/api/main.py, src/api/models.py, src/app/elasticsearch_client.py).
\*
\* Strings that the code parses (the text query, the integer-like form fields)
\* are sequences of one-character strings; strings that the code only compares
\* or passes on are TLA+ strings.  An Optional value is None or Some(v).
EXTENDS Integers, Sequences, FiniteSets, TLC

VARIABLES
    es,         \* the Elasticsearch backend: [exists, docs]
    fs,         \* which files exist next to the service: [recipes_file]
    pending,    \* the form the client submits to POST /search
    form,       \* the form fields of the last POST /search handled (None before the first)
    query_body, \* the query body the last search sent to the backend (None if none was built)
    response,   \* the outcome of the last handler call
    metrics,    \* the Prometheus counters and the histogram's observation count
    aggs_data,  \* input of parse_aggregations (decoder specification)
    parsed,     \* output of parse_aggregations (decoder specification)
    minutes,    \* a document's minute value (range specification)
    placed,     \* the range buckets that value was counted in (range specification)
    calls,      \* how many times client.search was invoked
    configs,    \* the module-level table AGGREGATION_CONFIGS, shared by all requests
    tasks,      \* the POST /search coroutines in flight (concurrent specification)
    started,    \* how many startup events have run (ingestion specification)
    source_recipes, \* input of deduplicate_recipes (deduplication specification)
    deduplicated \* output of deduplicate_recipes (deduplication specification)

vars == <<es, fs, pending, form, query_body, response, metrics, aggs_data, parsed,
          minutes, placed, calls, configs, tasks, started, source_recipes, deduplicated>>

-----------------------------------------------------------------------------
\* Optional values and small helpers

None == [some |-> FALSE]

Some(v) == [some |-> TRUE, v |-> v]

Range(s) == {s[i] : i \in 1..Len(s)}

\* the list a comprehension [i \in 1..n |-> e] builds
List(f) == <<>> \o f

SeqsUpTo(S, n) == UNION {[1..k -> S] : k \in 0..n}

Min2(a, b) == IF a < b THEN a ELSE b

Max2(a, b) == IF a > b THEN a ELSE b

\* Python slice s[from : from + size] for from >= 0
Window(s, from, size) ==
    IF size <= 0 THEN <<>>
    ELSE SubSeq(s, from + 1, Min2(Len(s), from + size))

-----------------------------------------------------------------------------
\* Python str.strip() and int() on character sequences

Whitespace == {" ", "\t", "\n"}

Digits == <<"0", "1", "2", "3", "4", "5", "6", "7", "8", "9">>

DigitSet == Range(Digits)

DigitValue(c) == (CHOOSE i \in 1..10 : Digits[i] = c) - 1

RECURSIVE LStrip(_)
LStrip(s) == IF s # <<>> /\ Head(s) \in Whitespace THEN LStrip(Tail(s)) ELSE s

RECURSIVE RStrip(_)
RStrip(s) ==
    IF s # <<>> /\ s[Len(s)] \in Whitespace THEN RStrip(SubSeq(s, 1, Len(s) - 1)) ELSE s

Strip(s) == RStrip(LStrip(s))

\* int() accepts digits with single underscores between two digits
ValidDigits(s) ==
    /\ s # <<>>
    /\ \A i \in 1..Len(s) :
        \/ s[i] \in DigitSet
        \/ /\ s[i] = "_"
           /\ i > 1 /\ i < Len(s)
           /\ s[i - 1] \in DigitSet /\ s[i + 1] \in DigitSet

RECURSIVE DigitsValue(_, _)
DigitsValue(s, acc) ==
    IF s = <<>> THEN acc
    ELSE IF Head(s) = "_" THEN DigitsValue(Tail(s), acc)
    ELSE DigitsValue(Tail(s), 10 * acc + DigitValue(Head(s)))

\* Python int(s): Some(n), or None where int() raises ValueError
PyInt(s) ==
    LET t == Strip(s)
        signed == t # <<>> /\ Head(t) \in {"+", "-"}
        body == IF signed THEN Tail(t) ELSE t
    IN IF ~ValidDigits(body) THEN None
       ELSE Some(IF signed /\ Head(t) = "-" THEN 0 - DigitsValue(body, 0)
                 ELSE DigitsValue(body, 0))

-----------------------------------------------------------------------------
\* search_recipes: the nested helpers parse_bool and parse_int

\* mutant: every submitted string but "false" read as true
parse_bool_truthy(value) ==
    IF value.some /\ value.v # "false" THEN Some(TRUE)
    ELSE IF value = Some("false") THEN Some(FALSE)
    ELSE None

parse_bool(value) ==
    IF value = Some("true") THEN Some(TRUE)
    ELSE IF value = Some("false") THEN Some(FALSE)
    ELSE None

parse_int(value) ==
    IF value.some /\ value.v # <<>> /\ Strip(value.v) # <<>>
    THEN PyInt(Strip(value.v))
    ELSE None

\* Python truthiness of an Optional[int]: None and 0 are falsy
TruthyInt(o) == o.some /\ o.v # 0

-----------------------------------------------------------------------------
\* models.py: SearchRequest

DifficultyLevel == {"easy", "medium", "hard"}

\* mutant: integer fields declared without bounds
IntFieldOk_unbounded(o, lo, hasHi, hi) == TRUE

\* Field(..., ge=lo, le=hi) on an Optional[int]
IntFieldOk(o, lo, hasHi, hi) == o.some => (o.v >= lo /\ (hasHi => o.v <= hi))

\* The pydantic field is declared `from_` with alias "from" and the model
\* sets no populate-by-name option: the keyword from_=... of the constructor
\* call is an unknown (ignored) argument and the field takes its default.
SearchRequest_from_(kw) == 0

\* the names of the fields whose validation fails, in declaration order
SearchRequestErrors(kw) ==
    (IF kw.difficulty.some /\ kw.difficulty.v \notin DifficultyLevel
     THEN <<"difficulty">> ELSE <<>>)
    \o (IF IntFieldOk(kw.max_prep_time, 0, FALSE, 0) THEN <<>> ELSE <<"max_prep_time">>)
    \o (IF IntFieldOk(kw.max_cook_time, 0, FALSE, 0) THEN <<>> ELSE <<"max_cook_time">>)
    \o (IF IntFieldOk(kw.min_healthiness, 0, TRUE, 100) THEN <<>> ELSE <<"min_healthiness">>)
    \o (IF IntFieldOk(kw.max_healthiness, 0, TRUE, 100) THEN <<>> ELSE <<"max_healthiness">>)
    \o (IF kw.size >= 0 /\ kw.size <= 100 THEN <<>> ELSE <<"size">>)

\* SearchRequest(**kw): the validated model, or the validation error
SearchRequest(kw) ==
    LET errors == SearchRequestErrors(kw)
    IN IF errors # <<>>
    THEN [ok |-> FALSE, errors |-> errors]
    ELSE [ok |-> TRUE,
          r |-> [query |-> kw.query,
                 fuzziness |-> "AUTO",
                 cuisines |-> kw.cuisines,
                 difficulty |-> kw.difficulty,
                 max_prep_time |-> kw.max_prep_time,
                 max_cook_time |-> kw.max_cook_time,
                 is_vegan |-> kw.is_vegan,
                 is_vegetarian |-> kw.is_vegetarian,
                 is_gluten_free |-> kw.is_gluten_free,
                 is_dairy_free |-> kw.is_dairy_free,
                 is_nut_free |-> kw.is_nut_free,
                 min_healthiness |-> kw.min_healthiness,
                 max_healthiness |-> kw.max_healthiness,
                 size |-> kw.size,
                 from_ |-> SearchRequest_from_(kw),
                 include_aggregations |-> kw.include_aggregations]]

-----------------------------------------------------------------------------
\* main.py: AGGREGATION_CONFIGS

RangeBucket(key, from, to) == [key |-> key, from |-> from, to |-> to]

\* mutant: the second bucket starting above the first one's end
prep_time_ranges_gap ==
    << RangeBucket("0-15 min", None, Some(15)),
       RangeBucket("15-30 min", Some(16), Some(30)),
       RangeBucket("30-60 min", Some(30), Some(60)),
       RangeBucket("60+ min", Some(60), None) >>

prep_time_ranges ==
    << RangeBucket("0-15 min", None, Some(15)),
       RangeBucket("15-30 min", Some(15), Some(30)),
       RangeBucket("30-60 min", Some(30), Some(60)),
       RangeBucket("60+ min", Some(60), None) >>

cook_time_ranges ==
    << RangeBucket("0-15 min", None, Some(15)),
       RangeBucket("15-30 min", Some(15), Some(30)),
       RangeBucket("30-45 min", Some(30), Some(45)),
       RangeBucket("45-60 min", Some(45), Some(60)),
       RangeBucket("60-90 min", Some(60), Some(90)),
       RangeBucket("90-120 min", Some(90), Some(120)),
       RangeBucket("120+ min", Some(120), None) >>

total_time_ranges ==
    << RangeBucket("0-30 min", None, Some(30)),
       RangeBucket("30-60 min", Some(30), Some(60)),
       RangeBucket("60-90 min", Some(60), Some(90)),
       RangeBucket("90-120 min", Some(90), Some(120)),
       RangeBucket("120+ min", Some(120), None) >>

TermsAgg(field, size) == [kind |-> "terms", field |-> field, size |-> size, order |-> "_key asc"]

StatsAgg(field) == [kind |-> "stats", field |-> field]

RangeAgg(field, ranges) == [kind |-> "range", field |-> field, ranges |-> ranges]

BucketFacets ==
    <<"cuisines", "difficulty_levels", "dietary_profiles",
      "prep_time_ranges", "cook_time_ranges", "total_time_ranges">>

RangeFacets == {"prep_time_ranges", "cook_time_ranges", "total_time_ranges"}

AGGREGATION_CONFIGS ==
    [cuisines |-> TermsAgg("cuisine_list.keyword", 1000),
     difficulty_levels |-> TermsAgg("difficulty.keyword", 50),
     dietary_profiles |-> TermsAgg("dietary_profile.keyword", 50),
     healthiness_stats |-> StatsAgg("healthiness_score"),
     prep_time_ranges |-> RangeAgg("est_prep_time_min", prep_time_ranges),
     cook_time_ranges |-> RangeAgg("est_cook_time_min", cook_time_ranges),
     total_time_ranges |-> RangeAgg("total_time_min", total_time_ranges)]

-----------------------------------------------------------------------------
\* main.py: build_search_query

\* one filter clause of post_filter.bool.filter; kind is the Elasticsearch
\* clause ("terms", "term", "range"), unused parts are empty
Clause(kind, field, values, flag, gte, lte) ==
    [kind |-> kind, field |-> field, values |-> values, flag |-> flag,
     gte |-> gte, lte |-> lte]

\* mutant: a missing operand of the derived field counted as one minute
runtime_mappings_missing_one ==
    [total_time_min |->
        [type |-> "long",
         script |-> [first |-> "est_prep_time_min", second |-> "est_cook_time_min",
                     missing |-> 1]]]

runtime_mappings ==
    [total_time_min |->
        [type |-> "long",
         script |-> [first |-> "est_prep_time_min", second |-> "est_cook_time_min",
                     missing |-> 0]]]

multi_match(request) ==
    [kind |-> "multi_match",
     query |-> request.query,
     fields |-> << [field |-> "recipe_title", boost |-> 4],
                   [field |-> "description", boost |-> 2],
                   [field |-> "ingredient_text", boost |-> 1],
                   [field |-> "directions_text", boost |-> 1] >>,
     type |-> "best_fields",
     fuzziness |-> IF request.fuzziness # "" THEN request.fuzziness ELSE "AUTO"]

match_all == [kind |-> "match_all"]

\* mutant: the multi-field match appended whatever the text query is
must_clauses_always_match(request) == <<multi_match(request)>>

\* query.bool.must
must_clauses(request) ==
    IF request.query # <<>> THEN <<multi_match(request)>> ELSE <<match_all>>

dietary_filters(request) ==
    << <<request.is_vegan, "is_vegan">>,
       <<request.is_vegetarian, "is_vegetarian">>,
       <<request.is_gluten_free, "is_gluten_free">>,
       <<request.is_dairy_free, "is_dairy_free">>,
       <<request.is_nut_free, "is_nut_free">> >>

RECURSIVE dietary_clauses(_)
\* for value, field in dietary_filters: if value is not None: append a term clause
dietary_clauses(pairs) ==
    IF pairs = <<>> THEN <<>>
    ELSE (IF Head(pairs)[1].some
          THEN <<Clause("term", Head(pairs)[2], <<>>, Head(pairs)[1], None, None)>>
          ELSE <<>>)
         \o dietary_clauses(Tail(pairs))

healthiness_clause(request) ==
    IF TruthyInt(request.min_healthiness) \/ TruthyInt(request.max_healthiness)
    THEN <<Clause("range", "healthiness_score", <<>>, None,
                  IF TruthyInt(request.min_healthiness) THEN request.min_healthiness ELSE None,
                  IF TruthyInt(request.max_healthiness) THEN request.max_healthiness ELSE None)>>
    ELSE <<>>

\* post_filter.bool.filter, in the order the code appends the clauses
filter_clauses(request) ==
    (IF request.cuisines.some /\ request.cuisines.v # <<>>
     THEN <<Clause("terms", "cuisine_list.keyword", request.cuisines.v, None, None, None)>>
     ELSE <<>>)
    \o (IF request.difficulty.some /\ request.difficulty.v # ""
        THEN <<Clause("term", "difficulty.keyword", <<request.difficulty.v>>, None, None, None)>>
        ELSE <<>>)
    \o (IF TruthyInt(request.max_prep_time)
        THEN <<Clause("range", "est_prep_time_min", <<>>, None, None, request.max_prep_time)>>
        ELSE <<>>)
    \o (IF TruthyInt(request.max_cook_time)
        THEN <<Clause("range", "est_cook_time_min", <<>>, None, None, request.max_cook_time)>>
        ELSE <<>>)
    \o dietary_clauses(dietary_filters(request))
    \o healthiness_clause(request)

\* mutant: the filter clauses put into the query's bool (filter context)
\* instead of post_filter
build_search_query_coupled(request) ==
    [size |-> request.size,
     from |-> request.from_,
     query |-> [bool |-> [must |-> must_clauses(request), filter |-> filter_clauses(request)]],
     post_filter |-> None,
     runtime_mappings |-> IF request.include_aggregations THEN Some(runtime_mappings) ELSE None,
     aggs |-> IF request.include_aggregations THEN Some(AGGREGATION_CONFIGS) ELSE None]

\* mutant: the derived field registered whether or not facets are requested
build_search_query_mappings(request) ==
    LET filter == filter_clauses(request)
    IN
    [size |-> request.size,
     from |-> request.from_,
     query |-> [bool |-> [must |-> must_clauses(request)]],
     post_filter |-> IF filter = <<>> THEN None
                     ELSE Some([bool |-> [filter |-> filter]]),
     runtime_mappings |-> Some(runtime_mappings),
     aggs |-> IF request.include_aggregations THEN Some(AGGREGATION_CONFIGS) ELSE None]

build_search_query(request) ==
    LET filter == filter_clauses(request)
    IN
    [size |-> request.size,
     from |-> request.from_,
     query |-> [bool |-> [must |-> must_clauses(request)]],
     post_filter |-> IF filter = <<>> THEN None
                     ELSE Some([bool |-> [filter |-> filter]]),
     runtime_mappings |-> IF request.include_aggregations THEN Some(runtime_mappings) ELSE None,
     aggs |-> IF request.include_aggregations THEN Some(AGGREGATION_CONFIGS) ELSE None]

-----------------------------------------------------------------------------
\* The recipe records of data/recipes_cleaned.json (a small data file)

pasta == <<"p", "a", "s", "t", "a">>

soup == <<"s", "o", "u", "p">>

basil == <<"b", "a", "s", "i", "l">>

Recipe1 ==
    [recipe_title |-> "Pasta Primavera",
     terms |-> [recipe_title |-> {pasta}, description |-> {basil},
                ingredient_text |-> {pasta, basil}, directions_text |-> {}],
     cuisine_list |-> <<"italian">>, difficulty |-> "easy",
     dietary_profile |-> "vegetarian",
     est_prep_time_min |-> Some(15), est_cook_time_min |-> Some(30),
     is_vegan |-> FALSE, is_vegetarian |-> TRUE, is_gluten_free |-> FALSE,
     is_dairy_free |-> FALSE, is_nut_free |-> TRUE,
     healthiness_score |-> Some(50)]

Recipe2 ==
    [recipe_title |-> "Noodle Soup",
     terms |-> [recipe_title |-> {soup}, description |-> {pasta},
                ingredient_text |-> {soup}, directions_text |-> {}],
     cuisine_list |-> <<"asian">>, difficulty |-> "hard",
     dietary_profile |-> "vegan",
     est_prep_time_min |-> Some(0), est_cook_time_min |-> None,
     is_vegan |-> TRUE, is_vegetarian |-> TRUE, is_gluten_free |-> TRUE,
     is_dairy_free |-> TRUE, is_nut_free |-> TRUE,
     healthiness_score |-> Some(0)]

Recipe3 ==
    [recipe_title |-> "Fusion Pasta Bake",
     terms |-> [recipe_title |-> {pasta}, description |-> {},
                ingredient_text |-> {pasta}, directions_text |-> {pasta}],
     cuisine_list |-> <<"italian", "asian">>, difficulty |-> "medium",
     dietary_profile |-> "omnivore",
     est_prep_time_min |-> Some(60), est_cook_time_min |-> Some(120),
     is_vegan |-> FALSE, is_vegetarian |-> FALSE, is_gluten_free |-> FALSE,
     is_dairy_free |-> TRUE, is_nut_free |-> FALSE,
     healthiness_score |-> Some(75)]

RecipesFile == <<Recipe1, Recipe2, Recipe3>>

\* a document without the recipe_title that the response model requires
Untitled == [field \in DOMAIN Recipe2 \ {"recipe_title"} |-> Recipe2[field]]

\* the keyword values of the data, in ascending key order
KeyOrder ==
    <<"asian", "easy", "hard", "italian", "medium", "omnivore", "vegan", "vegetarian">>

-----------------------------------------------------------------------------
\* elasticsearch_client.py: what self.client.search(index, body) returns
\* (the engine's search semantics for the query bodies build_search_query makes)

\* best_fields score of a document for one must clause; 0 is no match
ClauseScore(doc, clause) ==
    IF clause.kind = "match_all" THEN 1
    ELSE LET hit == {i \in 1..Len(clause.fields) :
                        clause.query \in doc.terms[clause.fields[i].field]}
         IN IF hit = {} THEN 0
            ELSE LET best == CHOOSE i \in hit :
                                \A j \in hit : clause.fields[j].boost <= clause.fields[i].boost
                 IN clause.fields[best].boost

\* bool.must: every clause matches; the score is the sum of the clause scores
MustScore(doc, must) ==
    IF \E i \in 1..Len(must) : ClauseScore(doc, must[i]) = 0 THEN 0
    ELSE IF Len(must) = 0 THEN 1
    ELSE LET S[i \in 0..Len(must)] ==
                 IF i = 0 THEN 0 ELSE S[i - 1] + ClauseScore(doc, must[i])
         IN S[Len(must)]

RECURSIVE Ranked(_, _)
\* the positions `left`, best score first, ties in index order
Ranked(score, left) ==
    IF left = {} THEN <<>>
    ELSE LET top == CHOOSE i \in left :
                        \A j \in left : score[j] < score[i] \/ (score[j] = score[i] /\ i <= j)
         IN <<top>> \o Ranked(score, left \ {top})

\* the value of a numeric field; total_time_min exists only as a runtime field
FieldValue(doc, field, body) ==
    IF field = "total_time_min"
    THEN IF body.runtime_mappings.some
         THEN LET s == body.runtime_mappings.v.total_time_min.script
                  a == doc[s.first]
                  b == doc[s.second]
              IN Some((IF a.some THEN a.v ELSE s.missing)
                      + (IF b.some THEN b.v ELSE s.missing))
         ELSE None
    ELSE doc[field]

\* the keyword values of a document under a terms/term field
KeywordValues(doc, field) ==
    IF field = "cuisine_list.keyword" THEN Range(doc.cuisine_list)
    ELSE IF field = "difficulty.keyword" THEN {doc.difficulty}
    ELSE IF field = "dietary_profile.keyword" THEN {doc.dietary_profile}
    ELSE {}

\* range bounds: gte/lte of a range query are inclusive
RangeQueryMatches(value, clause) ==
    /\ value.some
    /\ clause.gte.some => value.v >= clause.gte.v
    /\ clause.lte.some => value.v <= clause.lte.v

ClauseMatches(doc, clause, body) ==
    IF clause.kind = "terms" \/ (clause.kind = "term" /\ ~clause.flag.some)
    THEN Range(clause.values) \cap KeywordValues(doc, clause.field) # {}
    ELSE IF clause.kind = "term" THEN doc[clause.field] = clause.flag.v
    ELSE RangeQueryMatches(FieldValue(doc, clause.field, body), clause)

\* the documents matching the query part of the body, ranked
Matched(docs, body) ==
    LET score == List([i \in 1..Len(docs) |->
                    IF "filter" \in DOMAIN body.query.bool
                       /\ \E k \in 1..Len(body.query.bool.filter) :
                              ~ClauseMatches(docs[i], body.query.bool.filter[k], body)
                    THEN 0
                    ELSE MustScore(docs[i], body.query.bool.must)])
        order == Ranked(score, {i \in 1..Len(docs) : score[i] > 0})
    IN List([k \in 1..Len(order) |-> docs[order[k]]])

\* post_filter restricts the hits (and the hit count), not the aggregations
PostFiltered(docs, body) ==
    IF ~body.post_filter.some THEN docs
    ELSE SelectSeq(docs, LAMBDA d :
            \A i \in 1..Len(body.post_filter.v.bool.filter) :
                ClauseMatches(d, body.post_filter.v.bool.filter[i], body))

\* a range aggregation bucket holds from <= value < to
InRangeBucket(value, r) ==
    /\ value.some
    /\ r.from.some => value.v >= r.from.v
    /\ r.to.some => value.v < r.to.v

RangeAggResult(docs, agg, body) ==
    LET values == List([i \in 1..Len(docs) |-> FieldValue(docs[i], agg.field, body)])
    IN [buckets |->
        List([i \in 1..Len(agg.ranges) |->
            [key |-> agg.ranges[i].key,
             from |-> agg.ranges[i].from, to |-> agg.ranges[i].to,
             doc_count |-> Cardinality({k \in 1..Len(values) :
                 InRangeBucket(values[k], agg.ranges[i])})]])]

\* a terms aggregation ordered by _key ascending, capped at `size` buckets
TermsAggResult(docs, agg) ==
    LET values == List([i \in 1..Len(docs) |-> KeywordValues(docs[i], agg.field)])
        all == List([i \in 1..Len(KeyOrder) |->
                   [key |-> KeyOrder[i],
                    doc_count |-> Cardinality({k \in 1..Len(values) :
                        KeyOrder[i] \in values[k]})]])
        used == SelectSeq(all, LAMBDA b : b.doc_count > 0)
    IN [buckets |-> SubSeq(used, 1, Min2(Len(used), agg.size))]

RECURSIVE SumOf(_)
SumOf(s) == IF s = <<>> THEN 0 ELSE Head(s) + SumOf(Tail(s))

\* a stats aggregation; the average is the exact quotient sum/count, kept as
\* a fraction, and is null (as min and max are) when no document has the field
StatsAggResult(docs, agg, body) ==
    LET values == List([i \in 1..Len(docs) |-> FieldValue(docs[i], agg.field, body)])
        having == SelectSeq(values, LAMBDA o : o.some)
        vals == List([i \in 1..Len(having) |-> having[i].v])
    IN IF vals = <<>>
       THEN [count |-> 0, min |-> None, max |-> None, avg |-> None, sum |-> 0]
       ELSE [count |-> Len(vals),
             min |-> Some(CHOOSE v \in Range(vals) : \A w \in Range(vals) : v <= w),
             max |-> Some(CHOOSE v \in Range(vals) : \A w \in Range(vals) : v >= w),
             avg |-> Some([num |-> SumOf(vals), den |-> Len(vals)]),
             sum |-> SumOf(vals)]

AggResult(docs, agg, body) ==
    IF agg.kind = "terms" THEN Some(TermsAggResult(docs, agg))
    ELSE IF agg.kind = "range" THEN Some(RangeAggResult(docs, agg, body))
    ELSE Some(StatsAggResult(docs, agg, body))

\* the "aggregations" part of the result: one entry per requested aggregation
Aggregate(docs, body) ==
    [name \in DOMAIN body.aggs.v |-> AggResult(docs, body.aggs.v[name], body)]

\* the search result; hits.total.value counts the documents after post_filter
SearchResult(docs, body) ==
    LET matched == Matched(docs, body)
        kept == PostFiltered(matched, body)
    IN [hits |-> [hits |-> Window(kept, body.from, body.size),
                  total |-> [value |-> Len(kept)]],
        aggregations |-> IF body.aggs.some THEN Some(Aggregate(matched, body)) ELSE None]

-----------------------------------------------------------------------------
\* main.py: parse_aggregations

\* Python round(num/den, 1) as a number of tenths: the nearest tenth of the
\* exact quotient, a tie going to the even tenth (for den < 20 a tie is a
\* multiple of a quarter, which a double holds exactly)
RoundTenths(num, den) ==
    LET q == (10 * num) \div den
        r == (10 * num) % den
    IN IF 2 * r < den THEN q
       ELSE IF 2 * r > den THEN q + 1
       ELSE IF q % 2 = 0 THEN q ELSE q + 1

\* truthiness of stats.get("avg"): None and 0.0 are falsy
AvgTruthy(avg) == avg.some /\ avg.v.num # 0

parse_avg(stats) ==
    IF AvgTruthy(stats.avg) THEN Some(RoundTenths(stats.avg.v.num, stats.avg.v.den))
    ELSE None

AggregationBucket(bucket) == [key |-> bucket.key, doc_count |-> bucket.doc_count]

\* mutant: a missing facet decoded like one without buckets
parse_bucket_agg_default(data, agg_name) ==
    IF ~data[agg_name].some THEN Some(<<>>)
    ELSE Some(List([i \in 1..Len(data[agg_name].v.buckets) |->
                  AggregationBucket(data[agg_name].v.buckets[i])]))

parse_bucket_agg(data, agg_name) ==
    IF ~data[agg_name].some THEN None
    ELSE Some(List([i \in 1..Len(data[agg_name].v.buckets) |->
                  AggregationBucket(data[agg_name].v.buckets[i])]))

parse_healthiness_stats(data) ==
    IF ~data.healthiness_stats.some THEN None
    ELSE LET stats == data.healthiness_stats.v
         IN Some([min |-> stats.min, max |-> stats.max,
                  avg |-> parse_avg(stats), sum |-> Some(stats.sum)])

parse_aggregations(data) ==
    [cuisines |-> parse_bucket_agg(data, "cuisines"),
     difficulty_levels |-> parse_bucket_agg(data, "difficulty_levels"),
     dietary_profiles |-> parse_bucket_agg(data, "dietary_profiles"),
     is_vegetarian_count |-> None,
     is_dairy_free_count |-> None,
     healthiness_stats |-> parse_healthiness_stats(data),
     prep_time_ranges |-> parse_bucket_agg(data, "prep_time_ranges"),
     cook_time_ranges |-> parse_bucket_agg(data, "cook_time_ranges"),
     total_time_ranges |-> parse_bucket_agg(data, "total_time_ranges")]

-----------------------------------------------------------------------------
\* main.py: the POST /search handler search_recipes

is_append(f) == f.append = Some("true")

\* min(size, 50)
request_size(f) == Min2(f.size, 50)

\* max(from_, 0)
request_from(f) == Max2(f.from_, 0)

\* mutant: aggregations requested for every request
include_aggregations_always(f) == TRUE

\* include_aggregations=not is_append
include_aggregations(f) == ~is_append(f)

\* mutant: every parsed minimum admitted
admit_min_healthiness_any(f) == parse_int(f.min_healthiness)

admit_min_healthiness(f) ==
    LET n == parse_int(f.min_healthiness)
    IN IF TruthyInt(n) /\ n.v > 16 THEN n ELSE None

admit_max_healthiness(f) ==
    LET n == parse_int(f.max_healthiness)
    IN IF TruthyInt(n) /\ n.v < 100 THEN n ELSE None

\* the keyword arguments of the SearchRequest(...) call
request_kwargs(f) ==
    [query |-> IF f.query # <<>> THEN Strip(f.query) ELSE <<>>,
     size |-> request_size(f),
     from_ |-> request_from(f),
     include_aggregations |-> include_aggregations(f),
     cuisines |-> IF f.cuisines.some /\ f.cuisines.v # <<>> THEN f.cuisines ELSE None,
     difficulty |-> IF f.difficulty.some /\ f.difficulty.v # "" THEN f.difficulty ELSE None,
     is_vegan |-> parse_bool(f.is_vegan),
     is_vegetarian |-> parse_bool(f.is_vegetarian),
     is_gluten_free |-> parse_bool(f.is_gluten_free),
     is_dairy_free |-> parse_bool(f.is_dairy_free),
     is_nut_free |-> parse_bool(f.is_nut_free),
     max_prep_time |-> parse_int(f.max_prep_time),
     max_cook_time |-> parse_int(f.max_cook_time),
     min_healthiness |-> admit_min_healthiness(f),
     max_healthiness |-> admit_max_healthiness(f)]

\* Recipe(**hit["_source"]): the fields of the response model
Recipe(source) ==
    [recipe_title |-> source.recipe_title,
     cuisine_list |-> source.cuisine_list,
     difficulty |-> source.difficulty,
     est_prep_time_min |-> source.est_prep_time_min,
     est_cook_time_min |-> source.est_cook_time_min,
     is_vegan |-> source.is_vegan,
     is_vegetarian |-> source.is_vegetarian,
     is_gluten_free |-> source.is_gluten_free,
     healthiness_score |-> source.healthiness_score]

current_filters(f) ==
    [cuisines |-> IF f.cuisines.some /\ f.cuisines.v # <<>> THEN f.cuisines.v ELSE <<>>,
     difficulty |-> f.difficulty,
     is_vegan |-> parse_bool(f.is_vegan),
     is_vegetarian |-> parse_bool(f.is_vegetarian),
     is_gluten_free |-> parse_bool(f.is_gluten_free),
     is_dairy_free |-> parse_bool(f.is_dairy_free),
     is_nut_free |-> parse_bool(f.is_nut_free),
     max_prep_time |-> parse_int(f.max_prep_time),
     max_cook_time |-> parse_int(f.max_cook_time),
     min_healthiness |-> parse_int(f.min_healthiness),
     max_healthiness |-> parse_int(f.max_healthiness)]

\* mutant: the error fragment counted under the status label 200
error_response_ok(cause, fields) ==
    [kind |-> "error", http_status |-> 200, status_code |-> 200,
     cause |-> cause, fields |-> fields]

\* the except branch: the string returned is sent as an HTML response with
\* the default HTTP status 200; status_code is the label counted in
\* search_requests_total; `cause` and `fields` are what the text of str(e)
\* inside the fragment tells (which exception, which request fields it names)
error_response(cause, fields) ==
    [kind |-> "error", http_status |-> 200, status_code |-> 500,
     cause |-> cause, fields |-> fields]

\* mutant: the total taken as the number of hits returned
response_total_len(request, result) == Len(result.hits.hits)

\* mutant: the total capped at the page size
response_total_capped(request, result) == Min2(result.hits.total.value, request.size)

\* total = result["hits"]["total"]["value"]
response_total(request, result) == result.hits.total.value

\* the template context of a successful search; Recipe(**hit["_source"])
\* raises on a hit without recipe_title, which ends in the error fragment
result_response(f, request, result) ==
    LET recipes == List([i \in 1..Len(result.hits.hits) |-> Recipe(result.hits.hits[i])])
        total == response_total(request, result)
    IN IF \E i \in 1..Len(result.hits.hits) : "recipe_title" \notin DOMAIN result.hits.hits[i]
       THEN error_response("decoding", <<>>)
       ELSE IF is_append(f)
       THEN [kind |-> "append", status_code |-> 200, total |-> total,
             recipes |-> recipes, from_ |-> request.from_, size |-> request.size]
       ELSE [kind |-> "full", status_code |-> 200, total |-> total,
             recipes |-> recipes,
             aggregations |-> IF result.aggregations.some
                              THEN Some(parse_aggregations(result.aggregations.v))
                              ELSE None,
             query |-> request.query,
             current_filters |-> current_filters(f),
             from_ |-> request.from_, size |-> request.size]

\* es_client.search_recipes raises when the engine is unreachable or the
\* index does not exist
search_available(backend, up) == up /\ backend.exists

\* mutant: a failed client.search call made a second time
search_calls_retried(up) == IF up THEN 1 ELSE 2

\* es_client.search_recipes awaits _execute_search once, and that calls
\* client.search once; a failure is re-raised as "Search failed"
search_calls(up) == 1

\* the handler's outcome for form f on backend state `backend`:
\* the query body sent (None when none was sent) and the response
search_outcome(f, backend, up) ==
    LET sr == SearchRequest(request_kwargs(f))
    IN IF ~sr.ok
       THEN [sent |-> None, response |-> error_response("validation", sr.errors)]
       ELSE LET body == build_search_query(sr.r)
            IN IF ~search_available(backend, up)
               THEN [sent |-> Some(body), response |-> error_response("backend", <<>>)]
               ELSE [sent |-> Some(body),
                     response |-> result_response(f, sr.r, SearchResult(backend.docs, body))]

-----------------------------------------------------------------------------
\* Bounds of the model

\* POST /search calls in one behaviour
MaxSearches == 1

\* POST /bulk-load calls that reach the backend in one behaviour
MaxLoads == 1

\* the longest bucket list of a decoded payload
MaxBuckets == 2

\* the largest minute value placed in the range buckets
MaxMinutes == 130

\* the largest prep or cook minutes of a document whose total time is derived
MaxOperand == 65

\* POST /search coroutines in flight at once
MaxTasks == 2

\* startup events (starts of the service) in one behaviour
MaxStartups == 2

\* the longest list of source records given to deduplicate_recipes
MaxRecipes == 2

-----------------------------------------------------------------------------
\* The form submissions explored

DefaultForm ==
    [query |-> <<>>, size |-> 10, from_ |-> 0, append |-> None,
     cuisines |-> None, difficulty |-> None,
     is_vegan |-> None, is_vegetarian |-> None, is_gluten_free |-> None,
     is_dairy_free |-> None, is_nut_free |-> None,
     max_prep_time |-> None, max_cook_time |-> None,
     min_healthiness |-> None, max_healthiness |-> None]

\* one facet-filter field set, the others left at their defaults
FilterSettings ==
    {[DefaultForm EXCEPT !.cuisines = c] :
        c \in {Some(<<>>), Some(<<"italian">>), Some(<<"italian", "asian">>)}}
    \cup {[DefaultForm EXCEPT !.difficulty = d] :
        d \in {Some(""), Some("easy"), Some("bogus")}}
    \cup {[DefaultForm EXCEPT !.is_vegan = b] :
        b \in {Some("true"), Some("false"), Some("yes")}}
    \cup {[DefaultForm EXCEPT !.is_vegetarian = Some("true")],
          [DefaultForm EXCEPT !.is_gluten_free = Some("true")],
          [DefaultForm EXCEPT !.is_dairy_free = Some("false")],
          [DefaultForm EXCEPT !.is_nut_free = Some("true")]}
    \cup {[DefaultForm EXCEPT !.max_prep_time = Some(s)] :
        s \in {<<>>, <<"0">>, <<"3", "0">>, <<" ", "1", "5", " ">>, <<"a", "b">>, <<"-", "1">>}}
    \cup {[DefaultForm EXCEPT !.max_cook_time = Some(s)] :
        s \in {<<"0">>, <<"3", "0">>}}
    \cup {[DefaultForm EXCEPT !.min_healthiness = Some(s)] :
        s \in {<<"0">>, <<"1", "6">>, <<"1", "7">>, <<"6", "0">>, <<"1", "0", "1">>}}
    \cup {[DefaultForm EXCEPT !.max_healthiness = Some(s)] :
        s \in {<<"0">>, <<"6", "0">>, <<"9", "9">>, <<"1", "0", "0">>, <<"-", "5">>}}
    \cup {[DefaultForm EXCEPT !.cuisines = Some(<<"italian">>), !.is_vegan = Some("false")],
          [DefaultForm EXCEPT !.min_healthiness = Some(<<"1", "7">>),
                              !.max_healthiness = Some(<<"6", "0">>)],
          [DefaultForm EXCEPT !.max_prep_time = Some(<<"3", "0">>),
                              !.max_cook_time = Some(<<"3", "0">>)]}
    \cup {DefaultForm}

\* the facet-filter fields of form g put into form f
WithFilters(f, g) ==
    [f EXCEPT !.cuisines = g.cuisines, !.difficulty = g.difficulty,
              !.is_vegan = g.is_vegan, !.is_vegetarian = g.is_vegetarian,
              !.is_gluten_free = g.is_gluten_free, !.is_dairy_free = g.is_dairy_free,
              !.is_nut_free = g.is_nut_free,
              !.max_prep_time = g.max_prep_time, !.max_cook_time = g.max_cook_time,
              !.min_healthiness = g.min_healthiness, !.max_healthiness = g.max_healthiness]

\* every filter setting under two text queries
FilterForms ==
    {[g EXCEPT !.query = q] : g \in FilterSettings, q \in {<<>>, pasta}}

\* windows: sizes and offsets around the limits, full and append
WindowForms ==
    {[g EXCEPT !.query = pasta, !.size = s, !.from_ = o, !.append = a] :
        g \in {DefaultForm, [DefaultForm EXCEPT !.cuisines = Some(<<"italian">>)]},
        s \in {0 - 1, 0, 2, 500}, o \in {0 - 5, 0, 1, 20},
        a \in {None, Some("true")}}

\* other text queries and append values
OtherForms ==
    {[DefaultForm EXCEPT !.query = q] : q \in {<<" ">>, <<" ">> \o pasta \o <<" ">>, soup, basil}}
    \cup {[DefaultForm EXCEPT !.append = a] : a \in {Some("false"), Some("1"), Some("true")}}
    \cup {[DefaultForm EXCEPT !.max_cook_time = Some(<<"1", ".", "5">>)],
          [DefaultForm EXCEPT !.min_healthiness = Some(<<"a", "b">>)],
          [DefaultForm EXCEPT !.max_healthiness = Some(<<"1", "0", "1">>)],
          [DefaultForm EXCEPT !.is_nut_free = Some("True"), !.difficulty = Some("hard")]}

Forms == FilterForms \cup WindowForms \cup OtherForms

-----------------------------------------------------------------------------
\* The state machine

NoIndex == [exists |-> FALSE, docs |-> <<>>]

\* the index the service finds when it starts: none, an empty one, a loaded
\* one, one that holds a document the response model cannot decode
InitialBackends ==
    {NoIndex, [exists |-> TRUE, docs |-> <<>>], [exists |-> TRUE, docs |-> RecipesFile],
     [exists |-> TRUE, docs |-> <<Untitled>>]}

NoMetrics ==
    [search_200 |-> 0, search_500 |-> 0, search_duration_count |-> 0,
     bulk_success |-> 0, bulk_error |-> 0]

NoPayload ==
    [cuisines |-> None, difficulty_levels |-> None, dietary_profiles |-> None,
     healthiness_stats |-> None, prep_time_ranges |-> None,
     cook_time_ranges |-> None, total_time_ranges |-> None]

Idle ==
    /\ aggs_data = NoPayload
    /\ parsed = None
    /\ minutes = None
    /\ placed = None

\* no search call made yet, the table as the module defines it, no coroutine
NoTasks ==
    /\ calls = 0
    /\ configs = AGGREGATION_CONFIGS
    /\ tasks = <<>>
    /\ started = 0
    /\ source_recipes = <<>>
    /\ deduplicated = None

Init ==
    /\ es \in InitialBackends
    /\ fs \in [recipes_file : BOOLEAN]
    /\ pending \in Forms
    /\ form = None
    /\ query_body = None
    /\ response = [kind |-> "none"]
    /\ metrics = NoMetrics
    /\ Idle
    /\ NoTasks

\* POST /search with the client's form; `up` is whether the engine answers
Search ==
    \E up \in BOOLEAN :
        /\ metrics.search_duration_count < MaxSearches
        /\ LET out == search_outcome(pending, es, up)
           IN /\ form' = Some(pending)
              /\ query_body' = out.sent
              /\ response' = out.response
              /\ metrics' =
                    [metrics EXCEPT
                        !.search_duration_count = @ + 1,
                        !.search_200 = IF out.response.status_code = 200 THEN @ + 1 ELSE @,
                        !.search_500 = IF out.response.status_code = 500 THEN @ + 1 ELSE @]
              /\ calls' = calls + (IF out.sent.some THEN search_calls(up) ELSE 0)
        /\ UNCHANGED <<es, fs, pending, aggs_data, parsed, minutes, placed, configs, tasks,
                    started, source_recipes, deduplicated>>

\* helpers.bulk(client, actions) with the default raise_on_error: the records
\* the engine accepts are indexed (each under a fresh generated id, the index
\* created on demand); if any was rejected BulkIndexError is raised afterwards
bulk_index_recipes(backend, recipes, rejected) ==
    [exists |-> TRUE,
     docs |-> backend.docs
              \o SelectSeq(recipes, LAMBDA r : \A i \in rejected : recipes[i] # r)]

\* the HTTPException of POST /bulk-load; `cause` and `failed` are what its
\* detail text tells: which failure, and for a BulkIndexError ("N document(s)
\* failed to index") how many records the engine rejected
bulk_error(status_code, cause, failed) ==
    [kind |-> "bulk_error", status_code |-> status_code, cause |-> cause, failed |-> failed]

\* POST /bulk-load; `rejected` are the positions of the records the engine rejects
BulkLoad ==
    \E up \in BOOLEAN, rejected \in {{}, {2}} :
        /\ IF ~fs.recipes_file
           THEN /\ response' = bulk_error(404, "file_not_found", 0)
                /\ UNCHANGED <<es, metrics>>
           ELSE /\ metrics.bulk_success + metrics.bulk_error < MaxLoads
                /\ IF ~up
                   THEN /\ response' = bulk_error(500, "unreachable", 0)
                        /\ metrics' = [metrics EXCEPT !.bulk_error = @ + 1]
                        /\ UNCHANGED es
                   ELSE /\ es' = bulk_index_recipes(es, RecipesFile, rejected)
                        /\ IF rejected # {}
                           THEN /\ response' = bulk_error(500, "bulk_index_error",
                                                            Cardinality(rejected))
                                /\ metrics' = [metrics EXCEPT !.bulk_error = @ + 1]
                           ELSE /\ response' =
                                      [kind |-> "bulk_loaded", status_code |-> 200,
                                       loaded_count |-> Len(RecipesFile),
                                       failed_count |-> 0]
                                /\ metrics' = [metrics EXCEPT !.bulk_success = @ + 1]
        /\ UNCHANGED <<fs, pending, form, query_body, aggs_data, parsed, minutes, placed,
                       calls, configs, tasks, started, source_recipes, deduplicated>>

Next == Search \/ BulkLoad

Spec == Init /\ [][Next]_vars

-----------------------------------------------------------------------------
\* Ingestion specification: the startup event and POST /bulk-load

\* one request to the engine and how it ended
Sent(op, result) == [op |-> op, result |-> result]

\* what a run of the startup code leaves: the index, the requests it sent
\* in order, and whether an exception reached the except branch
Ran(backend, requests, failed) == [es |-> backend, requests |-> requests, failed |-> failed]

\* load_initial_data: create the index with the mapping when the mapping file
\* is there (the engine refuses to create an index that exists), then bulk
\* index the data file when it is there; `up` tells which requests the engine
\* answers, `rejected` the records it rejects
load_initial_data(backend, files, up, rejected, requests) ==
    LET create == IF ~up.create THEN "unreachable"
                  ELSE IF backend.exists THEN "already_exists" ELSE "ok"
        created == IF files.mapping_file
                   THEN Ran(IF create = "ok" THEN [exists |-> TRUE, docs |-> <<>>] ELSE backend,
                            Append(requests, Sent("create", create)),
                            create # "ok")
                   ELSE Ran(backend, requests, FALSE)
    IN IF created.failed \/ ~files.recipes_file THEN created
       ELSE IF ~up.bulk
       THEN Ran(created.es, Append(created.requests, Sent("bulk", "unreachable")), TRUE)
       ELSE Ran(bulk_index_recipes(created.es, RecipesFile, rejected),
                Append(created.requests,
                       Sent("bulk", IF rejected = {} THEN "ok" ELSE "rejected")),
                rejected # {})

\* the try block of startup_event; index_exists answers False when its
\* request fails
startup_event(backend, files, up, rejected) ==
    LET index_exists == up.exists /\ backend.exists
        asked == <<Sent("exists", IF ~up.exists THEN "unreachable"
                                  ELSE IF backend.exists THEN "true" ELSE "false")>>
    IN IF ~index_exists
       THEN load_initial_data(backend, files, up, rejected, asked)
       ELSE IF ~up.search
       THEN Ran(backend, Append(asked, Sent("search", "unreachable")), TRUE)
       ELSE IF Len(backend.docs) = 0
       THEN load_initial_data(backend, files, up, rejected,
                              Append(asked, Sent("search", "ok")))
       ELSE Ran(backend, Append(asked, Sent("search", "ok")), FALSE)

\* the startup event of the application; every exception of the try block
\* is caught and printed
Startup ==
    \E up \in [exists : BOOLEAN, search : BOOLEAN, create : BOOLEAN, bulk : BOOLEAN],
       rejected \in {{}, {2}} :
        /\ started < MaxStartups
        /\ started' = started + 1
        /\ LET run == startup_event(es, fs, up, rejected)
           IN /\ es' = run.es
              /\ response' = [kind |-> "startup", requests |-> run.requests,
                              failed |-> run.failed, raised |-> FALSE]
        /\ UNCHANGED <<fs, pending, form, query_body, metrics, aggs_data, parsed,
                       minutes, placed, calls, configs, tasks, source_recipes, deduplicated>>

InitIngest ==
    /\ es \in InitialBackends
    /\ fs \in [recipes_file : BOOLEAN, mapping_file : BOOLEAN]
    /\ pending = DefaultForm
    /\ form = None
    /\ query_body = None
    /\ response = [kind |-> "none"]
    /\ metrics = NoMetrics
    /\ Idle
    /\ NoTasks

NextIngest == Startup \/ BulkLoad

SpecIngest == InitIngest /\ [][NextIngest]_vars

-----------------------------------------------------------------------------
\* scripts/dedupe_recipes.py.  Strings are character sequences over a small
\* alphabet, compared as Python compares them (by code point).

\* the characters of the alphabet in code point order
CodePoints == <<" ", "A", "B", "a", "b", "|">>

Code(c) == CHOOSE i \in 1..Len(CodePoints) : CodePoints[i] = c

\* str.lower()
Lower(s) ==
    List([i \in 1..Len(s) |-> IF s[i] = "A" THEN "a" ELSE IF s[i] = "B" THEN "b" ELSE s[i]])

RECURSIVE StrLess(_, _)
\* s < t for Python strings
StrLess(s, t) ==
    IF t = <<>> THEN FALSE
    ELSE IF s = <<>> THEN TRUE
    ELSE IF Head(s) # Head(t) THEN Code(Head(s)) < Code(Head(t))
    ELSE StrLess(Tail(s), Tail(t))

RECURSIVE Insert(_, _)
\* x put into the sorted list l, after the elements equal to it
Insert(x, l) ==
    IF l = <<>> THEN <<x>>
    ELSE IF StrLess(x, Head(l)) THEN <<x>> \o l
    ELSE <<Head(l)>> \o Insert(x, Tail(l))

RECURSIVE sorted(_)
\* sorted(list) of strings
sorted(l) == IF l = <<>> THEN <<>> ELSE Insert(l[Len(l)], sorted(SubSeq(l, 1, Len(l) - 1)))

RECURSIVE SortedSet(_)
\* sorted(list(a set of strings))
SortedSet(S) ==
    IF S = {} THEN <<>>
    ELSE LET least == CHOOSE x \in S : \A y \in S : x = y \/ StrLess(x, y)
         IN <<least>> \o SortedSet(S \ {least})

RECURSIVE Join(_, _)
\* sep.join(list)
Join(l, sep) ==
    IF l = <<>> THEN <<>>
    ELSE IF Len(l) = 1 THEN l[1]
    ELSE l[1] \o sep \o Join(Tail(l), sep)

\* the key string: title + "|" + the normalized ingredients joined by "||"
generate_recipe_key(recipe) ==
    LET title == Strip(Lower(recipe.recipe_title))
        normalized_ingredients ==
            sorted(List([i \in 1..Len(recipe.ingredients) |->
                            Strip(Lower(recipe.ingredients[i]))]))
        ingredients_str == Join(normalized_ingredients, <<"|", "|">>)
    IN title \o <<"|">> \o ingredients_str

\* the parts of combined_text joined by blanks (the records have no
\* directions_text)
regenerate_combined_text(recipe) ==
    Join((IF recipe.recipe_title # <<>> THEN <<Lower(recipe.recipe_title)>> ELSE <<>>)
         \o List([i \in 1..Len(recipe.categories) |-> Lower(recipe.categories[i])])
         \o List([i \in 1..Len(recipe.subcategories) |-> Lower(recipe.subcategories[i])])
         \o List([i \in 1..Len(recipe.ingredients) |-> Lower(recipe.ingredients[i])]),
         <<" ">>)

\* the truthy values of `field` in the group
Collected(group, field) ==
    {group[i][field].v : i \in {j \in 1..Len(group) :
                                   group[j][field].some /\ group[j][field].v # <<>>}}

\* the first record of the group with categories and subcategories in place
\* of category and subcategory, and combined_text regenerated
merge_recipes(group) ==
    LET merged == [recipe_title |-> group[1].recipe_title,
                   ingredients |-> group[1].ingredients,
                   categories |-> SortedSet(Collected(group, "category")),
                   subcategories |-> SortedSet(Collected(group, "subcategory"))]
    IN [recipe_title |-> merged.recipe_title,
        ingredients |-> merged.ingredients,
        categories |-> merged.categories,
        subcategories |-> merged.subcategories,
        combined_text |-> regenerate_combined_text(merged)]

\* the groups by key, in the order their keys first occur, merged; and the
\* statistics
deduplicate_recipes(records) ==
    LET key == List([i \in 1..Len(records) |-> generate_recipe_key(records[i])])
        first == SelectSeq(List([i \in 1..Len(records) |-> i]),
                           LAMBDA i : \A j \in 1..(i - 1) : key[j] # key[i])
        groups == List([k \in 1..Len(first) |->
                     LET members == SelectSeq(List([i \in 1..Len(records) |-> i]),
                                              LAMBDA i : key[i] = key[first[k]])
                     IN List([m \in 1..Len(members) |-> records[members[m]]])])
        deduped == List([k \in 1..Len(groups) |-> merge_recipes(groups[k])])
        repeated == SelectSeq(List([k \in 1..Len(groups) |-> k]),
                              LAMBDA k : Len(groups[k]) > 1)
        duplicate_counts ==
            List([n \in 1..Len(repeated) |->
                     [title |-> deduped[repeated[n]].recipe_title,
                      count |-> Len(groups[repeated[n]]),
                      categories |-> deduped[repeated[n]].categories]])
        by_count == Ranked(List([n \in 1..Len(duplicate_counts) |-> duplicate_counts[n].count]),
                           1..Len(duplicate_counts))
        top == List([n \in 1..Len(by_count) |-> duplicate_counts[by_count[n]]])
    IN [deduplicated |-> deduped,
        stats |-> [total_before |-> Len(records),
                   total_after |-> Len(deduped),
                   duplicates_removed |-> Len(records) - Len(deduped),
                   unique_duplicated_recipes |-> Len(duplicate_counts),
                   top_duplicates |-> SubSeq(top, 1, Min2(Len(top), 10))]]

\* source records: two spellings of one title, ingredient lists that are
\* equal after normalisation, one ingredient that contains the separator
SourceRecords ==
    [recipe_title : {<<"a">>, <<"A", " ">>},
     ingredients : {<<<<"a">>, <<"b">>>>, <<<<"B", " ">>, <<"a">>>>,
                    <<<<"a", "|", "|", "b">>>>, <<<<"a">>>>},
     category : {Some(<<>>), Some(<<"a">>), Some(<<"b">>)},
     subcategory : {None, Some(<<"b">>)}]

InitDedupe ==
    /\ es = NoIndex
    /\ fs = [recipes_file |-> FALSE]
    /\ pending = DefaultForm
    /\ form = None
    /\ query_body = None
    /\ response = [kind |-> "none"]
    /\ metrics = NoMetrics
    /\ Idle
    /\ calls = 0
    /\ configs = AGGREGATION_CONFIGS
    /\ tasks = <<>>
    /\ started = 0
    /\ source_recipes \in SeqsUpTo(SourceRecords, MaxRecipes)
    /\ deduplicated = None

Dedupe ==
    /\ deduplicated = None
    /\ deduplicated' = Some(deduplicate_recipes(source_recipes))
    /\ UNCHANGED <<es, fs, pending, form, query_body, response, metrics, aggs_data, parsed,
                   minutes, placed, calls, configs, tasks, started, source_recipes>>

SpecDedupe == InitDedupe /\ [][Dedupe]_vars

-----------------------------------------------------------------------------
\* Decoder specification: parse_aggregations applied to a backend payload

TermBuckets ==
    {[key |-> "italian", doc_count |-> 2], [key |-> "asian", doc_count |-> 1]}

RangeBuckets ==
    {[key |-> "15-30 min", from |-> Some(15), to |-> Some(30), doc_count |-> 0],
     [key |-> "0-15 min", from |-> None, to |-> Some(15), doc_count |-> 3]}

Present(S, n) == {Some([buckets |-> l]) : l \in SeqsUpTo(S, n)}

Fraction(num, den) == [num |-> num, den |-> den]

\* stats payloads: no documents, a zero average, averages to be rounded
StatsPayloads ==
    {None,
     Some([count |-> 0, min |-> None, max |-> None, avg |-> None, sum |-> 0]),
     Some([count |-> 2, min |-> Some(0), max |-> Some(0), avg |-> Some(Fraction(0, 2)), sum |-> 0]),
     Some([count |-> 1, min |-> Some(50), max |-> Some(50), avg |-> Some(Fraction(50, 1)), sum |-> 50]),
     Some([count |-> 3, min |-> Some(0), max |-> Some(50), avg |-> Some(Fraction(50, 3)), sum |-> 50]),
     Some([count |-> 4, min |-> Some(0), max |-> Some(1), avg |-> Some(Fraction(1, 4)), sum |-> 1]),
     Some([count |-> 4, min |-> Some(0), max |-> Some(1), avg |-> Some(Fraction(3, 4)), sum |-> 3])}

Payloads ==
    [cuisines : {None} \cup Present(TermBuckets, MaxBuckets),
     difficulty_levels : {None} \cup Present(TermBuckets, 1),
     dietary_profiles : {None} \cup Present(TermBuckets, 0),
     healthiness_stats : StatsPayloads,
     prep_time_ranges : {None} \cup Present(RangeBuckets, MaxBuckets),
     cook_time_ranges : {None} \cup Present(RangeBuckets, 0),
     total_time_ranges : {None} \cup Present(RangeBuckets, 0)]

Quiet ==
    /\ es = NoIndex
    /\ fs = [recipes_file |-> FALSE]
    /\ pending = DefaultForm
    /\ form = None
    /\ query_body = None
    /\ response = [kind |-> "none"]
    /\ metrics = NoMetrics
    /\ NoTasks

InitDecode ==
    /\ Quiet
    /\ aggs_data \in Payloads
    /\ parsed = None
    /\ minutes = None
    /\ placed = None

Decode ==
    /\ parsed = None
    /\ parsed' = Some(parse_aggregations(aggs_data))
    /\ UNCHANGED <<es, fs, pending, form, query_body, response, metrics,
                   aggs_data, minutes, placed, calls, configs, tasks,
                   started, source_recipes, deduplicated>>

SpecDecode == InitDecode /\ [][Decode]_vars

-----------------------------------------------------------------------------
\* Range specification: one document's minute value counted by the three
\* range aggregations of a full search

MinuteFields == {"est_prep_time_min", "est_cook_time_min"}

\* a document whose `field` holds `value`, the other minute field missing
MinuteDoc(field, value) ==
    [Recipe1 EXCEPT !.est_prep_time_min = IF field = "est_prep_time_min" THEN Some(value) ELSE None,
                    !.est_cook_time_min = IF field = "est_cook_time_min" THEN Some(value) ELSE None]

InitRange ==
    /\ Quiet
    /\ aggs_data = NoPayload
    /\ parsed = None
    /\ minutes \in {Some([field |-> f, value |-> v]) :
                       f \in MinuteFields, v \in (0 - MaxMinutes)..MaxMinutes}
    /\ placed = None

\* the range buckets of the search result that count the document
CountRanges ==
    /\ placed = None
    /\ LET body == build_search_query(SearchRequest(request_kwargs(DefaultForm)).r)
           result == SearchResult(<<MinuteDoc(minutes.v.field, minutes.v.value)>>, body)
       IN placed' = Some([name \in RangeFacets |->
                SelectSeq(result.aggregations.v[name].v.buckets,
                          LAMBDA b : b.doc_count > 0)])
    /\ UNCHANGED <<es, fs, pending, form, query_body, response, metrics,
                   aggs_data, parsed, minutes, calls, configs, tasks,
                   started, source_recipes, deduplicated>>

SpecRange == InitRange /\ [][CountRanges]_vars

-----------------------------------------------------------------------------
\* Total-time specification: one document's prep and cook minutes, its
\* derived field total_time_min and its total_time_ranges bucket in a full
\* search

OperandValues == {None} \cup {Some(v) : v \in 0..MaxOperand}

\* a document with the given prep and cook minutes
TotalDoc(prep, cook) ==
    [Recipe1 EXCEPT !.est_prep_time_min = prep, !.est_cook_time_min = cook]

InitTotal ==
    /\ Quiet
    /\ aggs_data = NoPayload
    /\ parsed = None
    /\ minutes \in {Some([prep |-> p, cook |-> c]) : p, c \in OperandValues}
    /\ placed = None

\* the derived field of the document and the total_time_ranges buckets of
\* the search result that count it
CountTotal ==
    /\ placed = None
    /\ LET body == build_search_query(SearchRequest(request_kwargs(DefaultForm)).r)
           doc == TotalDoc(minutes.v.prep, minutes.v.cook)
           result == SearchResult(<<doc>>, body)
       IN placed' = Some([total_time_min |-> FieldValue(doc, "total_time_min", body),
                          total_time_ranges |->
                              SelectSeq(result.aggregations.v.total_time_ranges.v.buckets,
                                        LAMBDA b : b.doc_count > 0)])
    /\ UNCHANGED <<es, fs, pending, form, query_body, response, metrics,
                   aggs_data, parsed, minutes, calls, configs, tasks,
                   started, source_recipes, deduplicated>>

SpecTotal == InitTotal /\ [][CountTotal]_vars

-----------------------------------------------------------------------------
\* Concurrent specification: POST /search coroutines on one event loop.  A
\* coroutine runs without interruption up to its only await (the backend
\* call, executed in the thread pool) and from there to its end.

\* mutant: compiling a query shrinks the cuisines facet of the shared table
configs_after_build_trimmed(table, request) == [table EXCEPT !.cuisines.size = 0]

\* build_search_query stores the table object itself under "aggs" and
\* neither it nor the rest of the handler writes to the table
configs_after_build(table, request) == table

\* the body as the backend call reads it: "aggs" is the shared table object
Referenced(body, table) == [body EXCEPT !.aggs = IF @.some THEN Some(table) ELSE None]

ConcurrentForms ==
    {DefaultForm,
     [DefaultForm EXCEPT !.query = pasta, !.cuisines = Some(<<"italian">>)],
     [DefaultForm EXCEPT !.query = pasta, !.append = Some("true"), !.size = 2],
     [DefaultForm EXCEPT !.difficulty = Some("bogus")]}

NewTask(f) ==
    [pc |-> "start", form |-> f, request |-> None, body |-> None,
     up |-> FALSE, result |-> None, response |-> [kind |-> "none"]]

InitConcurrent ==
    /\ es = [exists |-> TRUE, docs |-> RecipesFile]
    /\ fs = [recipes_file |-> TRUE]
    /\ pending = DefaultForm
    /\ form = None
    /\ query_body = None
    /\ response = [kind |-> "none"]
    /\ metrics = NoMetrics
    /\ Idle
    /\ calls = 0
    /\ configs = AGGREGATION_CONFIGS
    /\ started = 0
    /\ source_recipes = <<>>
    /\ deduplicated = None
    /\ tasks \in [1..MaxTasks -> {NewTask(f) : f \in ConcurrentForms}]

\* the finally block: one observation, one count under the status label
Recorded(m, status_code) ==
    [m EXCEPT !.search_duration_count = @ + 1,
              !.search_200 = IF status_code = 200 THEN @ + 1 ELSE @,
              !.search_500 = IF status_code = 500 THEN @ + 1 ELSE @]

\* from the start of the handler to the await: normalise, validate, compile;
\* a validation error ends the handler here
Begin(t) ==
    /\ tasks[t].pc = "start"
    /\ LET sr == SearchRequest(request_kwargs(tasks[t].form))
       IN IF ~sr.ok
          THEN /\ tasks' = [tasks EXCEPT ![t].pc = "done",
                                         ![t].response = error_response("validation", sr.errors)]
               /\ metrics' = Recorded(metrics, 500)
               /\ UNCHANGED configs
          ELSE /\ tasks' = [tasks EXCEPT ![t].pc = "awaiting",
                                         ![t].request = Some(sr.r),
                                         ![t].body = Some(build_search_query(sr.r))]
               /\ configs' = configs_after_build(configs, sr.r)
               /\ UNCHANGED metrics
    /\ UNCHANGED <<es, fs, pending, form, query_body, response, aggs_data, parsed,
                   minutes, placed, calls, started, source_recipes, deduplicated>>

\* _execute_search in the thread pool: client.search with the body
BackendSearch(t) ==
    \E up \in BOOLEAN :
        /\ tasks[t].pc = "awaiting"
        /\ tasks' = [tasks EXCEPT
                        ![t].pc = "resumed",
                        ![t].up = up,
                        ![t].result =
                            IF search_available(es, up)
                            THEN Some(SearchResult(es.docs, Referenced(tasks[t].body.v, configs)))
                            ELSE None]
        /\ calls' = calls + search_calls(up)
        /\ UNCHANGED <<es, fs, pending, form, query_body, response, metrics, aggs_data,
                       parsed, minutes, placed, configs, started, source_recipes, deduplicated>>

\* from the await to the end of the handler: decode and assemble, or the
\* error fragment
Finish(t) ==
    /\ tasks[t].pc = "resumed"
    /\ LET out == IF tasks[t].result.some
                  THEN result_response(tasks[t].form, tasks[t].request.v, tasks[t].result.v)
                  ELSE error_response("backend", <<>>)
       IN /\ tasks' = [tasks EXCEPT ![t].pc = "done", ![t].response = out]
          /\ metrics' = Recorded(metrics, out.status_code)
    /\ UNCHANGED <<es, fs, pending, form, query_body, response, aggs_data, parsed,
                   minutes, placed, calls, configs, started, source_recipes, deduplicated>>

NextConcurrent == \E t \in 1..MaxTasks : Begin(t) \/ BackendSearch(t) \/ Finish(t)

SpecConcurrent == InitConcurrent /\ [][NextConcurrent]_vars

-----------------------------------------------------------------------------
\* Properties of the search handler (specification Spec)

\* the last handler call was a search that returned results
Answered == form.some /\ response.kind \in {"full", "append"}

\* the last handler call was a search
Searched == form.some /\ response.kind \in {"full", "append", "error"}

\* the handler's outcome, on the same index, for the last form with the
\* facet-filter fields of g
WithFiltersOutcome(g) == search_outcome(WithFilters(form.v, g), es, TRUE)

\* the query body the handler compiles for form f (None when f is rejected)
Compiled(f) ==
    LET sr == SearchRequest(request_kwargs(f))
    IN IF sr.ok THEN Some(build_search_query(sr.r)) ELSE None

\* the documents of the index that match the scoring clause of the query body
ScoredDocs(body) ==
    {i \in 1..Len(es.docs) : MustScore(es.docs[i], body.query.bool.must) > 0}

\* C1 - facet independence: requests that differ only in facet-filter fields
\* compile to the same query, aggs and runtime_mappings; no filter clause is
\* inside query; on the same index their facet bucket counts are the same.
C1_FacetIndependence ==
    (Searched /\ query_body.some) =>
        /\ DOMAIN query_body.v.query.bool = {"must"}
        /\ \A i \in 1..Len(query_body.v.query.bool.must) :
               query_body.v.query.bool.must[i].kind \in {"multi_match", "match_all"}
        /\ \A g \in FilterSettings :
               LET other == Compiled(WithFilters(form.v, g))
               IN other.some =>
                    /\ other.v.query = query_body.v.query
                    /\ other.v.aggs = query_body.v.aggs
                    /\ other.v.runtime_mappings = query_body.v.runtime_mappings
                    /\ response.kind = "full" =>
                           LET answer == WithFiltersOutcome(g).response
                           IN answer.kind = "full" =>
                                  answer.aggregations = response.aggregations

\* a filtered full search with facets, and a filter setting that returns other hits
C1_Witness ==
    /\ Answered /\ response.kind = "full"
    /\ query_body.v.post_filter.some
    /\ response.aggregations.some /\ response.aggregations.v.cuisines.v # <<>>
    /\ \E g \in FilterSettings :
           /\ WithFiltersOutcome(g).response.kind = "full"
           /\ WithFiltersOutcome(g).response.recipes # response.recipes

\* C2 as stated - the total is the same whatever the facet filters are.
C2_TotalIgnoresFilters ==
    Answered =>
        \A g \in FilterSettings :
            WithFiltersOutcome(g).response.kind \in {"full", "append"} =>
                WithFiltersOutcome(g).response.total = response.total

\* C2 amended - the total is the number of documents that match the scoring
\* clause and every facet filter of the compiled query (all documents
\* matching the scoring clause when the request has no facet filter).
C2_TotalCountsFilteredMatches ==
    Answered =>
        response.total =
            Cardinality({i \in ScoredDocs(query_body.v) :
                ~query_body.v.post_filter.some
                \/ \A k \in 1..Len(query_body.v.post_filter.v.bool.filter) :
                       ClauseMatches(es.docs[i], query_body.v.post_filter.v.bool.filter[k],
                                     query_body.v)})

\* a facet filter that lowers the total below the count of scored documents,
\* with more matches than the page shows
C2_Witness ==
    /\ Answered /\ response.kind = "full"
    /\ query_body.v.post_filter.some
    /\ response.total < Cardinality(ScoredDocs(query_body.v))
    /\ response.total > Len(response.recipes)

\* C3 - the total is the backend's match count whatever the window is: the
\* same criteria under any other (from, size) give the same total.
C3_TotalIndependentOfWindow ==
    Answered =>
        \A s \in {0, 1, 50, 500}, o \in {0 - 5, 0, 2} :
            LET other == search_outcome([form.v EXCEPT !.size = s, !.from_ = o], es, TRUE)
            IN other.response.kind \in {"full", "append"} =>
                   other.response.total = response.total

\* a result whose total exceeds the number of hits returned
C3_Witness ==
    /\ Answered
    /\ response.size = 2
    /\ Len(response.recipes) = 2
    /\ response.total > 2

\* C4 - an append request is compiled without aggs and runtime_mappings and
\* its response carries no aggregations.
C4_AppendSuppressesFacets ==
    (Searched /\ is_append(form.v)) =>
        /\ query_body.some =>
               /\ ~query_body.v.aggs.some
               /\ ~query_body.v.runtime_mappings.some
        /\ response.kind # "full"
        /\ "aggregations" \notin DOMAIN response

\* an append request with a facet filter that returned hits
C4_Witness ==
    /\ Answered /\ is_append(form.v)
    /\ response.kind = "append"
    /\ query_body.v.post_filter.some
    /\ response.recipes # <<>>

\* C5 - an append request with from=F, size=S returns the hits F..F+S-1 of
\* the matched set of the full request with the same filters, without
\* aggregations and with the full request's total.
C5_AppendPaging ==
    (Answered /\ response.kind = "append"
        /\ form.v.from_ >= 0 /\ form.v.size \in 0..50) =>
        LET full == search_outcome([form.v EXCEPT !.append = None, !.from_ = 0, !.size = 50],
                                   es, TRUE).response
        IN /\ full.kind = "full" =>
                  /\ response.recipes = Window(full.recipes, form.v.from_, form.v.size)
                  /\ response.total = full.total
           /\ "aggregations" \notin DOMAIN response

\* C6 - every submitted size is normalized, without the request being
\* rejected for it, into [0, 50], and that size is sent to the backend.
C6_SizeClamping ==
    Searched =>
        /\ response.kind = "error" => \A i \in 1..Len(response.fields) : response.fields[i] # "size"
        /\ query_body.some => query_body.v.size = Max2(0, Min2(form.v.size, 50))

\* C7 - the offset of the compiled query and of the response is max(from, 0).
C7_OffsetFlooring ==
    Searched =>
        /\ query_body.some => query_body.v.from = Max2(form.v.from_, 0)
        /\ Answered => response.from_ = Max2(form.v.from_, 0)

-----------------------------------------------------------------------------
\* Properties of the decoder (specification SpecDecode)

\* C8 - healthiness_stats: min, max and sum are copied, avg is the backend
\* average rounded to one decimal, and avg is null only when the backend
\* reports no average (an average of 0 decodes to 0).
C8_StatsDecoding ==
    (parsed.some /\ aggs_data.healthiness_stats.some) =>
        LET stats == aggs_data.healthiness_stats.v
            decoded == parsed.v.healthiness_stats
        IN /\ decoded.some
           /\ decoded.v.min = stats.min
           /\ decoded.v.max = stats.max
           /\ decoded.v.sum = Some(stats.sum)
           /\ decoded.v.avg = IF stats.avg.some
                              THEN Some(RoundTenths(stats.avg.v.num, stats.avg.v.den))
                              ELSE None

\* C9 - a bucket facet decodes to null when its name is missing from the
\* payload, to the empty list when it has no buckets, and otherwise to the
\* {key, doc_count} of its buckets in the backend's order.
C9_AbsentVsEmptyFacet ==
    parsed.some =>
        \A n \in Range(BucketFacets) :
            IF ~aggs_data[n].some THEN parsed.v[n] = None
            ELSE /\ parsed.v[n].some
                 /\ Len(parsed.v[n].v) = Len(aggs_data[n].v.buckets)
                 /\ \A i \in 1..Len(aggs_data[n].v.buckets) :
                        parsed.v[n].v[i] = [key |-> aggs_data[n].v.buckets[i].key,
                                            doc_count |-> aggs_data[n].v.buckets[i].doc_count]

\* a payload without cuisines, with an empty facet and with two buckets
\* that are not in configuration order
C9_Witness ==
    /\ parsed.some
    /\ ~aggs_data.cuisines.some /\ parsed.v.cuisines = None
    /\ aggs_data.difficulty_levels.some /\ parsed.v.difficulty_levels = Some(<<>>)
    /\ parsed.v.prep_time_ranges.some
    /\ Len(parsed.v.prep_time_ranges.v) = 2
    /\ parsed.v.prep_time_ranges.v[1].key = "15-30 min"
    /\ parsed.v.prep_time_ranges.v[2].key = "0-15 min"

-----------------------------------------------------------------------------
\* Properties of the range facets (specification SpecRange)

FacetOfField(field) ==
    IF field = "est_prep_time_min" THEN "prep_time_ranges" ELSE "cook_time_ranges"

\* the configured ranges leave no gap: the first has no lower bound, the last
\* no upper bound, each upper bound is the next lower bound
Contiguous(ranges) ==
    /\ ~ranges[1].from.some
    /\ ~ranges[Len(ranges)].to.some
    /\ \A i \in 1..(Len(ranges) - 1) : ranges[i].to.some /\ ranges[i + 1].from = ranges[i].to

\* C10 - the buckets of the three range facets are contiguous, lower-inclusive
\* and upper-exclusive: every minute value is counted in exactly one bucket,
\* the one with from <= value < to; prep=15 is in "15-30 min", prep=0 in
\* "0-15 min".
C10_RangeBoundaries ==
    /\ \A n \in RangeFacets : Contiguous(AGGREGATION_CONFIGS[n].ranges)
    /\ placed.some =>
        /\ \A n \in {FacetOfField(minutes.v.field), "total_time_ranges"} :
              /\ Len(placed.v[n]) = 1
              /\ placed.v[n][1].doc_count = 1
              /\ placed.v[n][1].from.some => placed.v[n][1].from.v <= minutes.v.value
              /\ placed.v[n][1].to.some => minutes.v.value < placed.v[n][1].to.v
        /\ (minutes.v.field = "est_prep_time_min" /\ minutes.v.value = 15) =>
              placed.v.prep_time_ranges[1].key = "15-30 min"
        /\ (minutes.v.field = "est_prep_time_min" /\ minutes.v.value = 0) =>
              placed.v.prep_time_ranges[1].key = "0-15 min"

\* a prep time on the boundary 15, counted in "15-30 min"
C10_Witness ==
    /\ placed.some
    /\ minutes.v = [field |-> "est_prep_time_min", value |-> 15]
    /\ placed.v.prep_time_ranges[1].key = "15-30 min"
    /\ Len(placed.v.prep_time_ranges) = 1

-----------------------------------------------------------------------------
\* Properties of the query compiler (specification Spec)

\* the validated request of the last search (defined when a query was built)
LastRequest == SearchRequest(request_kwargs(form.v)).r

\* the filter clauses of a compiled query body
FiltersOf(body) == IF body.post_filter.some THEN body.post_filter.v.bool.filter ELSE <<>>

\* the number of filter clauses of the body on `field`
ClausesOn(body, field) ==
    Cardinality({i \in 1..Len(FiltersOf(body)) : FiltersOf(body)[i].field = field})

DietaryFlags == {"is_vegan", "is_vegetarian", "is_gluten_free", "is_dairy_free", "is_nut_free"}

\* 1 for a present criterion, 0 for an absent one
One(present) == IF present THEN 1 ELSE 0

\* C11 - one filter clause per present criterion and none for an absent one:
\* cuisines (a non-empty list), difficulty, max_prep_time, max_cook_time (0
\* included), each dietary flag (false included), and one healthiness range
\* clause when either bound is present.
C11_OneFilterPerCriterion ==
    (Searched /\ query_body.some) =>
        LET request == LastRequest
            body == query_body.v
        IN /\ ClausesOn(body, "cuisine_list.keyword")
                  = One(request.cuisines.some /\ request.cuisines.v # <<>>)
           /\ ClausesOn(body, "difficulty.keyword") = One(request.difficulty.some)
           /\ ClausesOn(body, "est_prep_time_min") = One(request.max_prep_time.some)
           /\ ClausesOn(body, "est_cook_time_min") = One(request.max_cook_time.some)
           /\ \A flag \in DietaryFlags : ClausesOn(body, flag) = One(request[flag].some)
           /\ ClausesOn(body, "healthiness_score")
                  = One(request.min_healthiness.some \/ request.max_healthiness.some)
           /\ Len(FiltersOf(body))
                  = One(request.cuisines.some /\ request.cuisines.v # <<>>)
                    + One(request.difficulty.some)
                    + One(request.max_prep_time.some)
                    + One(request.max_cook_time.some)
                    + Cardinality({flag \in DietaryFlags : request[flag].some})
                    + One(request.min_healthiness.some \/ request.max_healthiness.some)

\* C12 - query.bool.must holds exactly one clause: the multi-field match on
\* recipe_title^4, description^2, ingredient_text, directions_text with the
\* configured fuzziness when the submitted text has a non-blank character
\* (the query being the trimmed text), the match-all clause otherwise.
C12_ScoringClause ==
    (Searched /\ query_body.some) =>
        LET must == query_body.v.query.bool.must
            text == form.v.query
        IN /\ Len(must) = 1
           /\ IF \E i \in 1..Len(text) : text[i] \notin Whitespace
              THEN /\ must[1].kind = "multi_match"
                   /\ must[1].fields = << [field |-> "recipe_title", boost |-> 4],
                                          [field |-> "description", boost |-> 2],
                                          [field |-> "ingredient_text", boost |-> 1],
                                          [field |-> "directions_text", boost |-> 1] >>
                   /\ must[1].fuzziness = "AUTO"
                   /\ must[1].query # <<>>
                   /\ must[1].query[1] \notin Whitespace
                   /\ must[1].query[Len(must[1].query)] \notin Whitespace
                   /\ \E k \in 0..Len(text) :
                          SubSeq(text, k + 1, k + Len(must[1].query)) = must[1].query
              ELSE must = <<[kind |-> "match_all"]>>

\* a text query padded with blanks, compiled to a match on the trimmed text
\* that found recipes
C12_Witness ==
    /\ Answered
    /\ form.v.query = <<" ">> \o pasta \o <<" ">>
    /\ query_body.v.query.bool.must[1].kind = "multi_match"
    /\ query_body.v.query.bool.must[1].query = pasta
    /\ response.total > 0

FacetNames ==
    {"cuisines", "difficulty_levels", "dietary_profiles", "healthiness_stats",
     "prep_time_ranges", "cook_time_ranges", "total_time_ranges"}

\* C13 - the compiled query carries aggs iff include_aggregations; with them
\* it carries exactly the seven facets of the configuration table and the
\* derived field total_time_min, without them neither aggs nor
\* runtime_mappings.
C13_FacetCatalog ==
    (Searched /\ query_body.some) =>
        LET body == query_body.v
        IN /\ body.aggs.some <=> LastRequest.include_aggregations
           /\ body.aggs.some =>
                  /\ DOMAIN body.aggs.v = FacetNames
                  /\ body.aggs.v = AGGREGATION_CONFIGS
                  /\ body.runtime_mappings.some
                  /\ DOMAIN body.runtime_mappings.v = {"total_time_min"}
           /\ ~body.aggs.some => ~body.runtime_mappings.some

\* a full search whose response decodes all seven facets
C13_Witness ==
    /\ Answered /\ response.kind = "full"
    /\ query_body.v.aggs.some
    /\ response.aggregations.some
    /\ \A n \in FacetNames : response.aggregations.v[n].some
    /\ response.aggregations.v.total_time_ranges.v # <<>>

-----------------------------------------------------------------------------
\* Properties of the derived total time (specification SpecTotal)

\* the minutes of an operand, a missing one being 0
OrZero(o) == IF o.some THEN o.v ELSE 0

\* C14 - total_time_min of a document is its prep minutes plus its cook
\* minutes, a missing operand counting as 0 (both missing gives 0); the
\* total_time_ranges facet counts the document in exactly the bucket with
\* from <= sum < to.
C14_DerivedTotalTime ==
    placed.some =>
        LET sum == OrZero(minutes.v.prep) + OrZero(minutes.v.cook)
            buckets == placed.v.total_time_ranges
        IN /\ placed.v.total_time_min = Some(sum)
           /\ (~minutes.v.prep.some /\ ~minutes.v.cook.some) => placed.v.total_time_min = Some(0)
           /\ Len(buckets) = 1
           /\ buckets[1].doc_count = 1
           /\ buckets[1].from.some => buckets[1].from.v <= sum
           /\ buckets[1].to.some => sum < buckets[1].to.v
           /\ buckets[1].key =
                  IF sum < 30 THEN "0-30 min"
                  ELSE IF sum < 60 THEN "30-60 min"
                  ELSE IF sum < 90 THEN "60-90 min"
                  ELSE IF sum < 120 THEN "90-120 min"
                  ELSE "120+ min"

\* prep 45 with the cook time missing: the total is 45, counted in "30-60 min"
C14_Witness ==
    /\ placed.some
    /\ minutes.v = [prep |-> Some(45), cook |-> None]
    /\ placed.v.total_time_min = Some(45)
    /\ placed.v.total_time_ranges[1].key = "30-60 min"

-----------------------------------------------------------------------------
\* Properties of the normalisation of form fields (specification Spec)

\* the submitted integer fields explored and the integers they denote
\* (None: not an integer)
IntegerReadings ==
    { <<<<>>, None>>, <<<<"0">>, Some(0)>>, <<<<"3", "0">>, Some(30)>>,
      <<<<" ", "1", "5", " ">>, Some(15)>>, <<<<"a", "b">>, None>>,
      <<<<"-", "1">>, Some(0 - 1)>>, <<<<"1", ".", "5">>, None>>,
      <<<<"1", "6">>, Some(16)>>, <<<<"1", "7">>, Some(17)>>, <<<<"6", "0">>, Some(60)>>,
      <<<<"9", "9">>, Some(99)>>, <<<<"1", "0", "0">>, Some(100)>>,
      <<<<"1", "0", "1">>, Some(101)>>, <<<<"-", "5">>, Some(0 - 5)>> }

\* the integer a submitted field denotes; absent fields denote none
Reading(field) ==
    IF ~field.some THEN None
    ELSE (CHOOSE pair \in IntegerReadings : pair[1] = field.v)[2]

\* the tri-state a submitted dietary flag denotes
FlagReading(field) ==
    IF field = Some("true") THEN Some(TRUE)
    ELSE IF field = Some("false") THEN Some(FALSE)
    ELSE None

TimeBounds == {"max_prep_time", "max_cook_time"}

\* C15 - a dietary flag normalizes to true for "true", false for "false" and
\* absent otherwise; max_prep_time / max_cook_time normalize to the integer
\* an integer-like string denotes and to absent otherwise; the normalized
\* values are the ones echoed in current_filters; a request is never rejected
\* for a dietary flag, nor for a time bound that is not an integer.
C15_LenientParsing ==
    Searched =>
        /\ \A f \in TimeBounds \cup {"min_healthiness", "max_healthiness"} :
               form.v[f].some => \E pair \in IntegerReadings : pair[1] = form.v[f].v
        /\ \A flag \in DietaryFlags :
               /\ request_kwargs(form.v)[flag] = FlagReading(form.v[flag])
               /\ response.kind = "full" =>
                      response.current_filters[flag] = FlagReading(form.v[flag])
               /\ query_body.some =>
                      ClausesOn(query_body.v, flag) = One(FlagReading(form.v[flag]).some)
        /\ \A f \in TimeBounds :
               /\ request_kwargs(form.v)[f] = Reading(form.v[f])
               /\ response.kind = "full" => response.current_filters[f] = Reading(form.v[f])
        /\ (response.kind = "error" /\ response.cause = "validation") =>
               \A i \in 1..Len(response.fields) :
                   /\ response.fields[i] \notin DietaryFlags
                   /\ response.fields[i] \in TimeBounds =>
                          Reading(form.v[response.fields[i]]).some

\* a time bound that is no integer: the search is answered without it
C15_Witness ==
    /\ Answered /\ response.kind = "full"
    /\ form.v.max_prep_time = Some(<<"a", "b">>)
    /\ response.current_filters.max_prep_time = None
    /\ ~query_body.v.post_filter.some
    /\ response.total > 0

\* the healthiness range clauses of a compiled query body
HealthinessClauses(body) ==
    SelectSeq(FiltersOf(body), LAMBDA c : c.field = "healthiness_score")

\* C16 - min_healthiness is admitted only if it denotes an integer above 16,
\* max_healthiness only if it denotes an integer below 100; a bound not
\* admitted is absent from the criteria and the query, and the request is not
\* rejected for it; every bound in the compiled query lies in [0, 100].
C16_HealthinessAdmission ==
    Searched =>
        LET kw == request_kwargs(form.v)
            lo == Reading(form.v.min_healthiness)
            hi == Reading(form.v.max_healthiness)
        IN /\ kw.min_healthiness.some => (lo.some /\ lo.v > 16 /\ kw.min_healthiness = lo)
           /\ kw.max_healthiness.some => (hi.some /\ hi.v < 100 /\ kw.max_healthiness = hi)
           /\ (lo.some /\ lo.v > 16) => kw.min_healthiness = lo
           /\ \A f \in {"min_healthiness", "max_healthiness"} :
                  ~kw[f].some =>
                      /\ response.kind = "error" =>
                             \A i \in 1..Len(response.fields) : response.fields[i] # f
                      /\ form.v = [DefaultForm EXCEPT ![f] = form.v[f]] => query_body.some
           /\ query_body.some =>
                  \A i \in 1..Len(HealthinessClauses(query_body.v)) :
                      LET c == HealthinessClauses(query_body.v)[i]
                      IN /\ c.gte.some <=> kw.min_healthiness.some
                         /\ c.lte.some <=> kw.max_healthiness.some
                         /\ c.gte.some => (c.gte.v >= 0 /\ c.gte.v <= 100 /\ c.gte = lo)
                         /\ c.lte.some => (c.lte.v >= 0 /\ c.lte.v <= 100 /\ c.lte = hi)
           /\ (query_body.some /\ HealthinessClauses(query_body.v) = <<>>) =>
                  (~kw.min_healthiness.some /\ ~kw.max_healthiness.some)

\* a minimum of 16 is not admitted: the search is answered without a
\* healthiness clause and returns the recipe with healthiness 0
C16_Witness ==
    /\ Answered /\ response.kind = "full"
    /\ form.v.min_healthiness = Some(<<"1", "6">>)
    /\ HealthinessClauses(query_body.v) = <<>>
    /\ response.current_filters.min_healthiness = Some(16)
    /\ \E i \in 1..Len(response.recipes) : response.recipes[i].healthiness_score = Some(0)

-----------------------------------------------------------------------------
\* Properties of the failure outcomes (specification Spec)

\* the kind of an error outcome: the response sent, its HTTP status and the
\* status label counted in the metrics (the message text apart)
OutcomeKind(r) == [kind |-> r.kind, http_status |-> r.http_status, status_code |-> r.status_code]

\* the last search failed at the backend: a query was compiled and sent
BackendFailed == Searched /\ response.kind = "error" /\ query_body.some

\* the last search was rejected by the validation of SearchRequest
Rejected == Searched /\ response.kind = "error" /\ ~query_body.some

\* C17 - a backend failure and an input-validation failure never produce
\* the same kind of error outcome.
C17_ErrorTaxonomy ==
    BackendFailed =>
        \A f \in Forms :
            LET other == search_outcome(f, es, FALSE)
            IN ~other.sent.some => OutcomeKind(other.response) # OutcomeKind(response)

\* the submitted fields that are out of range as the claim lists them: an
\* unknown difficulty, a negative time bound, a healthiness bound outside
\* [0, 100]
OutOfRange(f) ==
    {n \in {"difficulty"} : f.difficulty.some /\ f.difficulty.v \notin DifficultyLevel \cup {""}}
    \cup {n \in TimeBounds : Reading(f[n]).some /\ Reading(f[n]).v < 0}
    \cup {n \in {"min_healthiness", "max_healthiness"} :
             Reading(f[n]).some /\ (Reading(f[n]).v < 0 \/ Reading(f[n]).v > 100)}

\* the submitted fields that the validation of SearchRequest rejects: of the
\* healthiness bounds only an admitted one, that is a minimum above 100 or a
\* maximum below 0
Invalid(f) ==
    {n \in {"difficulty"} : f.difficulty.some /\ f.difficulty.v \notin DifficultyLevel \cup {""}}
    \cup {n \in TimeBounds : Reading(f[n]).some /\ Reading(f[n]).v < 0}
    \cup {n \in {"min_healthiness"} : Reading(f[n]).some /\ Reading(f[n]).v > 100}
    \cup {n \in {"max_healthiness"} : Reading(f[n]).some /\ Reading(f[n]).v < 0}

\* C18 as stated - a request with an out-of-range field is rejected before a
\* query is compiled, the backend is not called and the failure names the field.
C18_OutOfRangeRejected ==
    Searched =>
        \A n \in OutOfRange(form.v) :
            /\ Rejected
            /\ calls = 0
            /\ \E i \in 1..Len(response.fields) : response.fields[i] = n

\* C18 amended - a request with a field that the validation of SearchRequest
\* rejects is rejected before a query is compiled: no query body is built,
\* client.search is not called, and the failure names each such field; a
\* rejected request never reaches the backend; a maximum healthiness of 100
\* or more and a minimum of 16 or less are dropped, not rejected.
C18_ValidationPrecedesCompilation ==
    Searched =>
        /\ \A n \in Invalid(form.v) :
               /\ Rejected
               /\ \E i \in 1..Len(response.fields) : response.fields[i] = n
        /\ Rejected =>
               /\ query_body = None
               /\ calls = 0
               /\ response.cause = "validation"
               /\ response.fields # <<>>
        /\ \A n \in OutOfRange(form.v) \ Invalid(form.v) :
               response.kind = "error" =>
                   \A i \in 1..Len(response.fields) : response.fields[i] # n

\* a minimum healthiness of 101 is rejected with the field named and without
\* a backend call, on an index that has recipes
C18_Witness ==
    /\ Rejected
    /\ form.v.min_healthiness = Some(<<"1", "0", "1">>)
    /\ response.fields = <<"min_healthiness">>
    /\ query_body = None
    /\ calls = 0
    /\ es.docs # <<>>

\* C19 - each search request invokes client.search at most once: the calls
\* made never exceed the requests handled, a request whose query was sent
\* made exactly one call whether it succeeded or failed, and a failed call
\* ends the request in the error outcome.
C19_NoRetry ==
    /\ calls <= metrics.search_duration_count
    /\ (Searched /\ query_body.some) => calls = metrics.search_duration_count
    /\ BackendFailed => (calls >= 1 /\ metrics.search_500 >= 1)

\* a search whose backend call failed: one call, one error outcome
C19_Witness ==
    /\ BackendFailed
    /\ response.cause = "backend"
    /\ calls = 1
    /\ metrics.search_500 = 1
    /\ metrics.search_200 = 0

-----------------------------------------------------------------------------
\* Properties of concurrent requests (specification SpecConcurrent)

\* the tasks that have compiled a query
Compiling == {t \in DOMAIN tasks : tasks[t].body.some}

\* C20 - the shared configuration table is never modified; the query every
\* request compiled, as the backend reads it, is the one its own criteria
\* compile to in isolation, so requests with identical criteria have
\* identical queries; the outcome of every finished request, decoded facets
\* included, is the one the request has when handled alone.
C20_RequestIsolation ==
    /\ configs = AGGREGATION_CONFIGS
    /\ \A t \in Compiling :
           Some(Referenced(tasks[t].body.v, configs)) = Compiled(tasks[t].form)
    /\ \A t, u \in Compiling :
           tasks[t].form = tasks[u].form =>
               Referenced(tasks[t].body.v, configs) = Referenced(tasks[u].body.v, configs)
    /\ \A t \in DOMAIN tasks :
           tasks[t].pc = "done" =>
               tasks[t].response = search_outcome(tasks[t].form, es, tasks[t].up).response

\* two requests with different criteria in flight together: one back from
\* the backend with facets, the other compiled and waiting
C20_Witness ==
    /\ tasks # <<>>
    /\ tasks[1].pc = "resumed"
    /\ tasks[1].result.some /\ tasks[1].result.v.aggregations.some
    /\ tasks[2].pc = "awaiting"
    /\ tasks[2].form # tasks[1].form
    /\ tasks[2].body.v.post_filter.some

-----------------------------------------------------------------------------
\* Properties of ingestion (specification Spec)

\* the last handler call was a bulk load in which the engine rejected some
\* records and indexed the others
PartiallyLoaded ==
    \/ response.kind = "bulk_error" /\ response.cause = "bulk_index_error"
          /\ response.failed > 0 /\ response.failed < Len(RecipesFile)
    \/ response.kind = "bulk_loaded" /\ response.failed_count > 0 /\ response.loaded_count > 0

\* C21 - a bulk load that succeeds for some records and fails for others
\* completes successfully, with loaded_count the number of records indexed
\* and failed_count the number of records rejected.
C21_PartialBulkFailure ==
    PartiallyLoaded =>
        /\ response.kind = "bulk_loaded"
        /\ response.status_code = 200
        /\ response.loaded_count + response.failed_count = Len(RecipesFile)

-----------------------------------------------------------------------------
\* Properties of startup and repeated loads (specification SpecIngest)

\* the last event was a startup whose every request the engine answered
\* without rejecting a record
StartedReachable ==
    /\ response.kind = "startup"
    /\ \A i \in 1..Len(response.requests) :
           response.requests[i].result \notin {"unreachable", "rejected"}

\* the positions of the requests `op` in the startup's request log
Positions(op) == {i \in 1..Len(response.requests) : response.requests[i].op = op}

\* C22 - after a startup with a reachable backend and the data file present
\* the index is not empty: an index that was missing or empty has been bulk
\* indexed, the index creation (when the mapping file is present) coming
\* before the bulk indexing.
C22_StartupLoading ==
    (StartedReachable /\ fs.recipes_file) =>
        /\ es.exists
        /\ es.docs # <<>>
        /\ \A b \in Positions("bulk") :
               fs.mapping_file => \E c \in Positions("create") : c < b

\* C24 - after any sequence of startup events and bulk loads the index holds
\* at most one document per record of the data file.
C24_IndexUniqueness ==
    \A i, j \in 1..Len(es.docs) : es.docs[i] = es.docs[j] => i = j

\* C27 - a startup that finds the index existing with at least one document
\* sends no create-index and no bulk-index request, and no startup
\* propagates an exception.
C27_StartupFrame ==
    [][response'.kind = "startup" =>
           /\ ~response'.raised
           /\ (es.exists /\ es.docs # <<>>) =>
                  \A i \in 1..Len(response'.requests) :
                      response'.requests[i].op \notin {"create", "bulk"}]_vars

-----------------------------------------------------------------------------
\* Properties of deduplication (specification SpecDedupe)

\* the key of a record as a pair: the trimmed lower-cased title and the
\* sorted list of the trimmed lower-cased ingredients
KeyOf(recipe) ==
    << Strip(Lower(recipe.recipe_title)),
       sorted(List([i \in 1..Len(recipe.ingredients) |-> Strip(Lower(recipe.ingredients[i]))])) >>

\* the non-empty values of `field` among the source records with key k
ValuesOf(k, field) ==
    {source_recipes[i][field].v :
        i \in {j \in 1..Len(source_recipes) :
                  /\ KeyOf(source_recipes[j]) = k
                  /\ source_recipes[j][field].some
                  /\ source_recipes[j][field].v # <<>>}}

\* C23 - deduplicate_recipes returns exactly one record per distinct key
\* (title, sorted ingredients); its categories and subcategories are the
\* sorted unions of the non-empty category and subcategory values of the
\* source records with that key; category and subcategory are removed;
\* total_after is the number of distinct keys and duplicates_removed is
\* total_before - total_after.
C23_Deduplication ==
    deduplicated.some =>
        LET out == deduplicated.v.deduplicated
            stats == deduplicated.v.stats
            keys == {KeyOf(source_recipes[i]) : i \in 1..Len(source_recipes)}
        IN /\ Len(out) = Cardinality(keys)
           /\ \A k \in keys :
                  \E i \in 1..Len(out) :
                      /\ KeyOf(out[i]) = k
                      /\ \A j \in 1..Len(out) : KeyOf(out[j]) = k => j = i
                      /\ out[i].categories = SortedSet(ValuesOf(k, "category"))
                      /\ out[i].subcategories = SortedSet(ValuesOf(k, "subcategory"))
           /\ \A i \in 1..Len(out) :
                  "category" \notin DOMAIN out[i] /\ "subcategory" \notin DOMAIN out[i]
           /\ stats.total_before = Len(source_recipes)
           /\ stats.total_after = Cardinality(keys)
           /\ stats.duplicates_removed = stats.total_before - stats.total_after

-----------------------------------------------------------------------------
\* Properties of the search metrics (specification Spec)

\* a step in which the handler of POST /search ran
SearchStep ==
    \/ form' # form
    \/ query_body' # query_body
    \/ calls' # calls
    \/ metrics'.search_duration_count # metrics.search_duration_count
    \/ metrics'.search_200 # metrics.search_200
    \/ metrics'.search_500 # metrics.search_500

\* C25 - every search request, whether it ends in a result or in a failure
\* (validation, backend, decoding), records exactly one duration observation
\* and exactly one count, under the label 200 iff a full or append response
\* was produced and under 500 otherwise; a failing request returns the error
\* fragment (no exception leaves the handler) and no recipes.
C25_SearchMetrics ==
    [][SearchStep =>
          /\ metrics'.search_duration_count = metrics.search_duration_count + 1
          /\ response'.kind \in {"full", "append", "error"}
          /\ IF response'.kind \in {"full", "append"}
             THEN /\ metrics'.search_200 = metrics.search_200 + 1
                  /\ metrics'.search_500 = metrics.search_500
             ELSE /\ metrics'.search_500 = metrics.search_500 + 1
                  /\ metrics'.search_200 = metrics.search_200
                  /\ response'.http_status = 200
                  /\ "recipes" \notin DOMAIN response']_vars

\* a request whose hits could not be decoded was counted once, under 500
C25_Witness ==
    /\ response.kind = "error"
    /\ response.cause = "decoding"
    /\ query_body.some
    /\ metrics.search_500 >= 1
    /\ metrics.search_200 + metrics.search_500 = metrics.search_duration_count

-----------------------------------------------------------------------------
\* Properties of the echoed filter state (specification Spec)

\* an echoed value with the empty string read as no value
Echoed(value) == IF value.some /\ value.v = "" THEN None ELSE value

\* C26 - in every full (non-append) search response each value of the echoed
\* filter state (cuisines, difficulty, the five dietary flags, max_prep_time,
\* max_cook_time, min_healthiness, max_healthiness) equals the value of the
\* criterion of the request the backend query was built from.
C26_EchoedFilters ==
    (form.some /\ response.kind = "full") =>
        /\ response.current_filters.cuisines =
              (IF LastRequest.cuisines.some THEN LastRequest.cuisines.v ELSE <<>>)
        /\ Echoed(response.current_filters.difficulty) = LastRequest.difficulty
        /\ \A field \in DietaryFlags \cup {"max_prep_time", "max_cook_time",
                                           "min_healthiness", "max_healthiness"} :
               response.current_filters[field] = LastRequest[field]

====
